---- MODULE Spec2Model ----
(***************************************************************************)
(* Model of the httprouter Application (src/application.go): a per-path    *)
(* method table on top of http.ServeMux, middleware composition at         *)
(* registration time, and the dispatch callback with its 405 answer.       *)
(*                                                                         *)
(* A composed http.HandlerFunc is a closure chain.  It is represented by   *)
(* the sequence of its closures, outermost first; the last element is the  *)
(* terminal handler.  mw(next) is therefore <<mw>> \o next.                *)
(***************************************************************************)
EXTENDS Integers, Sequences, FiniteSets, TLC

(* ------------------------------------------------------------------ *)
(* Bounds of the model                                                *)
(* ------------------------------------------------------------------ *)
MaxRegs == 3        \* handle calls in the routing specification
MaxChainRegs == 2   \* handle calls in the chain specification
MaxMws == 2         \* route middleware per handle call
MaxGlobal == 2      \* length of the global middleware list
NumReqs == 2        \* concurrent requests in the serving specification
MaxConcRegs == 1    \* handle calls in the serving specification
MaxTableRegs == 2   \* handle calls in the table specification

(* ------------------------------------------------------------------ *)
(* Values                                                             *)
(* ------------------------------------------------------------------ *)
MethodGet == "GET"
MethodPost == "POST"
MethodPut == "PUT"
MethodPatch == "PATCH"
MethodDelete == "DELETE"
Methods == {MethodGet, MethodPost, MethodPut, MethodPatch, MethodDelete}
\* a request may carry a verb the router has no entry point for
RequestMethods == Methods \cup {"OPTIONS"}

Paths == {"/a", "/b"}
\* the pattern http.ServeMux.HandleFunc panics on
BadPath == ""
\* a request path nothing is registered for
RequestPaths == Paths \cup {"/c"}

\* terminal handlers: stringHandler-like functions and the nil func
NilHandler == "nil"
Handlers == {"h1", "h2"}
\* middleware that record themselves and call next (mw1, mw2, globalMw)
NextMws == {"A", "B", "G1", "G2"}
\* middleware that records itself, writes 401 and returns (interruptMw)
InterruptMws == {"I"}
\* the nil Middleware value
NilMw == "nilmw"
RouteMws == {"A", "B", "I"}
GlobalMws == {"G1", "G2"}

StatusOK == 200
StatusUnauthorized == 401
StatusNotFound == 404
StatusMethodNotAllowed == 405

SeqsUpTo(S, n) == UNION {[1..k -> S] : k \in 0..n}
\* the lists that name no middleware twice
InjSeqsUpTo(S, n) == {s \in SeqsUpTo(S, n) : \A i, j \in DOMAIN s : i # j => s[i] # s[j]}

VARIABLES
    mws,                  \* Application.mws: the global middleware list
    pathMethodHandlerMap, \* Application.pathMethodHandlerMap
    muxPatterns,          \* patterns with a callback installed on a.mux
    registered,           \* history: arguments of the latest handle call per (path, method)
    nreg,                 \* history: number of handle calls made
    reqs,                 \* requests being served concurrently
    last                  \* outcome of the latest operation

vars == <<mws, pathMethodHandlerMap, muxPatterns, registered, nreg, reqs, last>>

Range(s) == {s[i] : i \in DOMAIN s}

(* ------------------------------------------------------------------ *)
(* Middleware composition                                             *)
(* ------------------------------------------------------------------ *)
\* mw(handler): the closure a Middleware returns, wrapping `handler`
Call(mw, handler) == <<mw>> \o handler

RECURSIVE applyLoop(_, _, _)
applyLoop(handler, ms, i) ==
    IF i < 1 THEN handler
    ELSE applyLoop(Call(ms[i], handler), ms, i - 1)

\* the loop run forwards: the first middleware ends up innermost
RECURSIVE applyLoopForward(_, _, _)
applyLoopForward(handler, ms, i) ==
    IF i > Len(ms) THEN handler
    ELSE applyLoopForward(Call(ms[i], handler), ms, i + 1)

applyMiddlewareForward(handler, ms) == applyLoopForward(handler, ms, 1)

\* for i := len(mws) - 1; i >= 0; i-- { handler = mws[i](handler) }
applyMiddleware(handler, ms) == applyLoop(handler, ms, Len(ms))

\* global middleware applied first, route middleware around it
middlewareGlobalInner(handler, ms) ==
    applyMiddleware(applyMiddleware(<<handler>>, mws), ms)

\* route middleware only: the global list is not applied
middlewareRouteOnly(handler, ms) == applyMiddleware(<<handler>>, ms)

\* a.middleware(handler, mws...): route middleware first, then a.mws around it
middleware(handler, ms) ==
    applyMiddleware(applyMiddleware(<<handler>>, ms), mws)

\* calling a nil Middleware panics inside applyMiddleware
middlewarePanics(ms) == NilMw \in Range(ms) \/ NilMw \in Range(mws)

(* ------------------------------------------------------------------ *)
(* The method table and allowedMethods                                *)
(* ------------------------------------------------------------------ *)
\* one method table shared by every path: the path key is dropped
TableShared(path) ==
    IF path \in DOMAIN pathMethodHandlerMap
    THEN [m \in UNION {DOMAIN pathMethodHandlerMap[p] : p \in DOMAIN pathMethodHandlerMap} |->
             IF m \in DOMAIN pathMethodHandlerMap[path]
             THEN pathMethodHandlerMap[path][m]
             ELSE pathMethodHandlerMap[CHOOSE p \in DOMAIN pathMethodHandlerMap :
                                           m \in DOMAIN pathMethodHandlerMap[p]][m]]
    ELSE <<>>

\* a.pathMethodHandlerMap[path]: the nil map (no entries) when path is absent
Table(path) ==
    IF path \in DOMAIN pathMethodHandlerMap THEN pathMethodHandlerMap[path] ELSE <<>>

\* the orders in which `range` may visit the keys of a Go map
RangeOrders(m) ==
    {o \in [1..Cardinality(DOMAIN m) -> DOMAIN m] :
        \A i, j \in DOMAIN o : i # j => o[i] # o[j]}

\* a string is the sequence of the pieces appended to it; "" is <<>>
Separator == ", "

\* the separator appended after every method, also the last
RECURSIVE joinLoopTrailing(_, _, _)
joinLoopTrailing(order, i, methods) ==
    IF i > Len(order) THEN methods
    ELSE joinLoopTrailing(order, i + 1, methods \o <<order[i], Separator>>)

\* the loop leaves out the key visited last
RECURSIVE joinLoopStopsEarly(_, _, _)
joinLoopStopsEarly(order, i, methods) ==
    IF i >= Len(order) THEN methods
    ELSE joinLoopStopsEarly(order, i + 1,
                  (IF methods # <<>> THEN methods \o <<Separator>> ELSE methods)
                      \o <<order[i]>>)

RECURSIVE joinLoop(_, _, _)
joinLoop(order, i, methods) ==
    IF i > Len(order) THEN methods
    ELSE joinLoop(order, i + 1,
                  (IF methods # <<>> THEN methods \o <<Separator>> ELSE methods)
                      \o <<order[i]>>)

\* allowedMethods(path): every string the loop can build, one per visiting order
allowedMethods(path) == {joinLoop(o, 1, <<>>) : o \in RangeOrders(Table(path))}

(* ------------------------------------------------------------------ *)
(* Running a composed handler                                         *)
(* ------------------------------------------------------------------ *)
\* a fresh httptest.ResponseRecorder and an empty call log
NewRecorder ==
    [status |-> 0, body |-> "", hasAllow |-> FALSE, allow |-> <<>>,
     called |-> <<>>, fault |-> FALSE]

WriteHeader(w, code) == [w EXCEPT !.status = IF @ = 0 THEN code ELSE @]

Write(w, text) == [WriteHeader(w, StatusOK) EXCEPT !.body = text]

Log(w, name) == [w EXCEPT !.called = Append(@, name)]

\* one closure of the chain runs; TRUE when it goes on to call next
CallsNext(f) == f \in NextMws

\* a nil handler is skipped instead of called
StepNilGuard(f, w) ==
    IF f = NilHandler THEN w
    ELSE IF f \in Handlers THEN Write(Log(w, f), f)
    ELSE IF f \in InterruptMws THEN WriteHeader(Log(w, f), StatusUnauthorized)
    ELSE Log(w, f)

Step(f, w) ==
    IF f = NilHandler THEN [w EXCEPT !.fault = TRUE]
    ELSE IF f \in Handlers THEN Write(Log(w, f), f)
    ELSE IF f \in InterruptMws THEN WriteHeader(Log(w, f), StatusUnauthorized)
    ELSE Log(w, f)

RECURSIVE Invoke(_, _)
Invoke(h, w) ==
    IF CallsNext(Head(h)) THEN Invoke(Tail(h), Step(Head(h), w))
    ELSE Step(Head(h), w)

\* the server writes 200 when the handler returned without writing a status
Finish(w) == IF w.status = 0 /\ ~w.fault THEN [w EXCEPT !.status = StatusOK] ELSE w

http_Error(w, text, code) == [WriteHeader(w, code) EXCEPT !.body = text]

\* the dispatch callback run to its end with the global list applied at dispatch
callbackLate(method, path) ==
    IF method \in DOMAIN Table(path)
    THEN {Finish(Invoke(applyMiddleware(Table(path)[method], mws), NewRecorder))}
    ELSE {http_Error([NewRecorder EXCEPT !.hasAllow = TRUE, !.allow = a],
                     "Method Not Allowed\n", StatusMethodNotAllowed) :
             a \in allowedMethods(path)}

\* r.Method is not used: the handler of some registered method runs
callbackAnyMethod(method, path) ==
    IF method \in DOMAIN Table(path)
    THEN {Finish(Invoke(Table(path)[CHOOSE m \in DOMAIN Table(path) : TRUE], NewRecorder))}
    ELSE {http_Error([NewRecorder EXCEPT !.hasAllow = TRUE, !.allow = a],
                     "Method Not Allowed\n", StatusMethodNotAllowed) :
             a \in allowedMethods(path)}

\* the return after h(w, r) is missing: the 405 answer is written as well
callbackNoReturn(method, path) ==
    LET w == IF method \in DOMAIN Table(path)
             THEN Invoke(Table(path)[method], NewRecorder)
             ELSE NewRecorder
    IN  {Finish([http_Error([w EXCEPT !.hasAllow = TRUE, !.allow = a],
                            "Method Not Allowed\n", StatusMethodNotAllowed)
                    EXCEPT !.body = w.body \o "Method Not Allowed\n"]) :
            a \in allowedMethods(path)}

\* the whole callback is wrapped in the global middleware at dispatch: the
\* 405 answer is written inside it
callbackGlobalAround405(method, path) ==
    IF method \in DOMAIN Table(path)
    THEN {Finish(Invoke(Table(path)[method], NewRecorder))}
    ELSE {http_Error([NewRecorder EXCEPT !.hasAllow = TRUE, !.allow = a, !.called = mws],
                     "Method Not Allowed\n", StatusMethodNotAllowed) :
             a \in allowedMethods(path)}

\* the callback handle installs for `path`, run to its end
callback(method, path) ==
    IF method \in DOMAIN Table(path)
    THEN {Finish(Invoke(Table(path)[method], NewRecorder))}
    ELSE {http_Error([NewRecorder EXCEPT !.hasAllow = TRUE, !.allow = a],
                     "Method Not Allowed\n", StatusMethodNotAllowed) :
             a \in allowedMethods(path)}

\* http.ServeMux: the callback of the matching pattern, or 404 page not found
NotFound == http_Error(NewRecorder, "404 page not found\n", StatusNotFound)

ServeHTTP(method, path) ==
    IF path \in muxPatterns THEN callback(method, path) ELSE {NotFound}

(* ------------------------------------------------------------------ *)
(* Operations                                                         *)
(* ------------------------------------------------------------------ *)
Idle == [pc |-> "idle"]

\* NewApplication(mux) on a fresh http.NewServeMux()
Init ==
    /\ mws = <<>>
    /\ pathMethodHandlerMap = <<>>
    /\ muxPatterns = {}
    /\ registered = <<>>
    /\ nreg = 0
    /\ reqs = [i \in 1..NumReqs |-> Idle]
    /\ last = [kind |-> "new"]

\* the appended middleware are also wrapped around the handlers already stored
WithGlobalMiddlewaresRetro(ms) ==
    /\ mws' = mws \o ms
    /\ pathMethodHandlerMap' =
           [p \in DOMAIN pathMethodHandlerMap |->
               [m \in DOMAIN pathMethodHandlerMap[p] |->
                   applyMiddleware(pathMethodHandlerMap[p][m], ms)]]
    /\ last' = [kind |-> "global", added |-> ms]
    /\ UNCHANGED <<muxPatterns, registered, nreg, reqs>>

\* a.mws = append(mws, a.mws...): the new middleware is put in front
WithGlobalMiddlewaresPrepend(ms) ==
    /\ mws' = ms \o mws
    /\ last' = [kind |-> "global", added |-> ms]
    /\ UNCHANGED <<pathMethodHandlerMap, muxPatterns, registered, nreg, reqs>>

WithGlobalMiddlewares(ms) ==
    /\ mws' = mws \o ms
    /\ last' = [kind |-> "global", added |-> ms]
    /\ UNCHANGED <<pathMethodHandlerMap, muxPatterns, registered, nreg, reqs>>

\* the arguments of the latest completed handle call for (path, method), and
\* how many handle calls have stored a handler there
Registration(path, method, handler, ms) ==
    [handler |-> handler, mws |-> ms, global |-> mws,
     times |-> IF <<path, method>> \in DOMAIN registered
               THEN registered[<<path, method>>].times + 1
               ELSE 1]

\* a handler already stored for (path, method) is kept: the first registration wins
handleKeepFirst(method, path, handler, ms) ==
    LET isNew == path \notin DOMAIN pathMethodHandlerMap
        \* make(methodHandlerMap)
        created == IF isNew THEN (path :> <<>>) @@ pathMethodHandlerMap
                   ELSE pathMethodHandlerMap
        \* a.mux.HandleFunc(path, ...) panics on a pattern it rejects
        muxPanics == isNew /\ path = BadPath
        fault == muxPanics \/ middlewarePanics(ms)
    IN  /\ muxPatterns' = IF isNew /\ ~muxPanics THEN muxPatterns \cup {path}
                          ELSE muxPatterns
        /\ pathMethodHandlerMap' =
               IF fault THEN created
               ELSE [created EXCEPT ![path] = @ @@ (method :> middleware(handler, ms))]
        /\ registered' =
               IF fault THEN registered
               ELSE (<<path, method>> :> Registration(path, method, handler, ms))
                        @@ registered
        /\ nreg' = nreg + 1
        /\ last' = [kind |-> "handle", method |-> method, path |-> path,
                     handler |-> handler, fault |-> fault]
        /\ UNCHANGED <<mws, reqs>>

handle(method, path, handler, ms) ==
    LET isNew == path \notin DOMAIN pathMethodHandlerMap
        \* make(methodHandlerMap)
        created == IF isNew THEN (path :> <<>>) @@ pathMethodHandlerMap
                   ELSE pathMethodHandlerMap
        \* a.mux.HandleFunc(path, ...) panics on a pattern it rejects
        muxPanics == isNew /\ path = BadPath
        fault == muxPanics \/ middlewarePanics(ms)
    IN  /\ muxPatterns' = IF isNew /\ ~muxPanics THEN muxPatterns \cup {path}
                          ELSE muxPatterns
        /\ pathMethodHandlerMap' =
               IF fault THEN created
               ELSE [created EXCEPT ![path] = (method :> middleware(handler, ms)) @@ @]
        /\ registered' =
               IF fault THEN registered
               ELSE (<<path, method>> :> Registration(path, method, handler, ms))
                        @@ registered
        /\ nreg' = nreg + 1
        /\ last' = [kind |-> "handle", method |-> method, path |-> path,
                     handler |-> handler, fault |-> fault]
        /\ UNCHANGED <<mws, reqs>>

Post(path, handler, ms) == handle(MethodPost, path, handler, ms)

Get(path, handler, ms) == handle(MethodGet, path, handler, ms)

Put(path, handler, ms) == handle(MethodPut, path, handler, ms)

Patch(path, handler, ms) == handle(MethodPatch, path, handler, ms)

Delete(path, handler, ms) == handle(MethodDelete, path, handler, ms)

\* mux.ServeHTTP(rr, req) run to its end by one caller
Request(method, path) ==
    /\ \E resp \in ServeHTTP(method, path) :
           last' = [kind |-> "request", method |-> method, path |-> path, resp |-> resp]
    /\ UNCHANGED <<mws, pathMethodHandlerMap, muxPatterns, registered, nreg, reqs>>

\* a.allowedMethods(path) called on its own: the string it returns is kept
AllowedMethodsCall(path) ==
    /\ \E s \in allowedMethods(path) :
           last' = [kind |-> "allowedMethods", path |-> path, result |-> s]
    /\ UNCHANGED <<mws, pathMethodHandlerMap, muxPatterns, registered, nreg, reqs>>

(* ------------------------------------------------------------------ *)
(* Routing specification: many registrations over several paths       *)
(* ------------------------------------------------------------------ *)
RoutePaths == Paths \cup {BadPath}
RouteHandlers == {"h1"}
RouteMwLists == {<<>>, <<NilMw>>}
RouteGlobalLists == {<<"G1">>}

RouteGet == \E p \in RoutePaths, h \in RouteHandlers, ms \in RouteMwLists :
                nreg < MaxRegs /\ Get(p, h, ms)
RoutePost == \E p \in RoutePaths, h \in RouteHandlers, ms \in RouteMwLists :
                nreg < MaxRegs /\ Post(p, h, ms)
RoutePut == \E p \in RoutePaths, h \in RouteHandlers, ms \in RouteMwLists :
                nreg < MaxRegs /\ Put(p, h, ms)
RoutePatch == \E p \in RoutePaths, h \in RouteHandlers, ms \in RouteMwLists :
                nreg < MaxRegs /\ Patch(p, h, ms)
RouteDelete == \E p \in RoutePaths, h \in RouteHandlers, ms \in RouteMwLists :
                nreg < MaxRegs /\ Delete(p, h, ms)
RouteGlobal == \E ms \in RouteGlobalLists :
                /\ Len(mws) + Len(ms) <= MaxGlobal
                /\ Range(mws) \cap Range(ms) = {}
                /\ WithGlobalMiddlewares(ms)
RouteRequest == \E m \in RequestMethods, p \in RequestPaths : Request(m, p)

Next ==
    \/ RouteGet
    \/ RoutePost
    \/ RoutePut
    \/ RoutePatch
    \/ RouteDelete
    \/ RouteGlobal
    \/ RouteRequest

Spec == Init /\ [][Next]_vars

(* ------------------------------------------------------------------ *)
(* Chain specification: one path, every shape of middleware chain      *)
(* ------------------------------------------------------------------ *)
ChainPath == "/a"
ChainHandlers == Handlers
ChainMwLists == InjSeqsUpTo(RouteMws, MaxMws)
ChainGlobalLists == InjSeqsUpTo(GlobalMws, MaxGlobal) \ {<<>>}
ChainRequestMethods == {MethodGet, MethodPost, MethodDelete}

ChainGet == \E h \in ChainHandlers, ms \in ChainMwLists :
                nreg < MaxChainRegs /\ Get(ChainPath, h, ms)
ChainPost == \E h \in ChainHandlers, ms \in ChainMwLists :
                nreg < MaxChainRegs /\ Post(ChainPath, h, ms)
ChainGlobal == \E ms \in ChainGlobalLists :
                /\ Len(mws) + Len(ms) <= MaxGlobal
                /\ Range(mws) \cap Range(ms) = {}
                /\ WithGlobalMiddlewares(ms)
ChainRequest == \E m \in ChainRequestMethods : Request(m, ChainPath)

ChainNext ==
    \/ ChainGet
    \/ ChainPost
    \/ ChainGlobal
    \/ ChainRequest

SpecChain == Init /\ [][ChainNext]_vars

(* ------------------------------------------------------------------ *)
(* Table specification: the route table and the global list as        *)
(* registrations build them, read back through allowedMethods         *)
(* ------------------------------------------------------------------ *)
TableQueryPaths == RequestPaths \cup {BadPath}

TableAllowedMethods == \E p \in TableQueryPaths : AllowedMethodsCall(p)

TableGet == \E p \in RoutePaths, h \in RouteHandlers, ms \in RouteMwLists :
                nreg < MaxTableRegs /\ Get(p, h, ms)
TablePost == \E p \in RoutePaths, h \in RouteHandlers, ms \in RouteMwLists :
                nreg < MaxTableRegs /\ Post(p, h, ms)
TablePut == \E p \in RoutePaths, h \in RouteHandlers, ms \in RouteMwLists :
                nreg < MaxTableRegs /\ Put(p, h, ms)
TablePatch == \E p \in RoutePaths, h \in RouteHandlers, ms \in RouteMwLists :
                nreg < MaxTableRegs /\ Patch(p, h, ms)
TableDelete == \E p \in RoutePaths, h \in RouteHandlers, ms \in RouteMwLists :
                nreg < MaxTableRegs /\ Delete(p, h, ms)

TableNext ==
    \/ TableGet
    \/ TablePost
    \/ TablePut
    \/ TablePatch
    \/ TableDelete
    \/ ChainGlobal
    \/ TableAllowedMethods

SpecTable == Init /\ [][TableNext]_vars

(* ------------------------------------------------------------------ *)
(* Serving specification: requests served concurrently, one goroutine *)
(* each, every read of router state a step of its own                 *)
(* ------------------------------------------------------------------ *)
\* writes made to router state so far (handle calls and appended middleware)
Mutations == nreg + Len(mws)

\* a write to router state since request i arrived: its reads race with it
Raced(i) == reqs[i].epoch # Mutations

\* the server goroutine calls mux.ServeHTTP: the mux matches the pattern
Arrive(i, method, path) ==
    /\ reqs[i].pc = "idle"
    /\ reqs' = [reqs EXCEPT ![i] =
                   IF path \in muxPatterns
                   THEN [pc |-> "callback", method |-> method, path |-> path,
                         h |-> <<>>, w |-> NewRecorder, epoch |-> Mutations]
                   ELSE [pc |-> "done", method |-> method, path |-> path,
                         h |-> <<>>, w |-> NotFound, epoch |-> Mutations]]
    /\ UNCHANGED <<mws, pathMethodHandlerMap, muxPatterns, registered, nreg, last>>

\* the handler found for another request in flight is used for this one
LookupShared(i) ==
    /\ reqs[i].pc = "callback"
    /\ \E j \in DOMAIN reqs :
        /\ reqs[j].pc \in {"callback", "run", "done"}
        /\ reqs' = [reqs EXCEPT ![i] =
                   IF reqs[j].method \in DOMAIN Table(reqs[j].path)
                   THEN [@ EXCEPT !.pc = "run", !.h = Table(reqs[j].path)[reqs[j].method]]
                   ELSE [@ EXCEPT !.pc = "notallowed"]]
    /\ UNCHANGED <<mws, pathMethodHandlerMap, muxPatterns, registered, nreg, last>>

\* the lookup of a missing method leaves an entry with a nil handler behind
LookupInsertsMissing(i) ==
    /\ reqs[i].pc = "callback"
    /\ reqs' = [reqs EXCEPT ![i] =
                   IF reqs[i].method \in DOMAIN Table(reqs[i].path)
                   THEN [@ EXCEPT !.pc = "run", !.h = Table(reqs[i].path)[reqs[i].method]]
                   ELSE [@ EXCEPT !.pc = "notallowed"]]
    /\ pathMethodHandlerMap' =
           IF reqs[i].method \in DOMAIN Table(reqs[i].path)
           THEN pathMethodHandlerMap
           ELSE [pathMethodHandlerMap EXCEPT ![reqs[i].path] =
                    (reqs[i].method :> <<NilHandler>>) @@ @]
    /\ UNCHANGED <<mws, muxPatterns, registered, nreg, last>>

\* pMH := a.pathMethodHandlerMap[path]; h, ok := pMH[r.Method]
Lookup(i) ==
    /\ reqs[i].pc = "callback"
    /\ reqs' = [reqs EXCEPT ![i] =
                   IF reqs[i].method \in DOMAIN Table(reqs[i].path)
                   THEN [@ EXCEPT !.pc = "run", !.h = Table(reqs[i].path)[reqs[i].method]]
                   ELSE [@ EXCEPT !.pc = "notallowed"]]
    /\ UNCHANGED <<mws, pathMethodHandlerMap, muxPatterns, registered, nreg, last>>

\* h(w, r): the next closure of the chain runs
Run(i) ==
    /\ reqs[i].pc = "run"
    /\ LET f == Head(reqs[i].h)
           w == Step(f, reqs[i].w)
       IN  reqs' = [reqs EXCEPT ![i] =
                       IF w.fault THEN [@ EXCEPT !.pc = "panicked", !.w = w]
                       ELSE IF CallsNext(f) THEN [@ EXCEPT !.h = Tail(@), !.w = w]
                       ELSE [@ EXCEPT !.pc = "done", !.w = Finish(w)]]
    /\ UNCHANGED <<mws, pathMethodHandlerMap, muxPatterns, registered, nreg, last>>

\* the value is built with a separator after every method and the last one
\* cut off by slicing: the slice bounds are out of range for an empty table
NotAllowedTrimPanics(i) ==
    /\ reqs[i].pc = "notallowed"
    /\ \E a \in allowedMethods(reqs[i].path) :
           reqs' = [reqs EXCEPT ![i] =
                       IF a = <<>>
                       THEN [@ EXCEPT !.pc = "panicked", !.w = [@ EXCEPT !.fault = TRUE]]
                       ELSE [@ EXCEPT !.pc = "done",
                                 !.w = http_Error([@ EXCEPT !.hasAllow = TRUE, !.allow = a],
                                                  "Method Not Allowed\n",
                                                  StatusMethodNotAllowed)]]
    /\ UNCHANGED <<mws, pathMethodHandlerMap, muxPatterns, registered, nreg, last>>

\* w.Header().Set("Allow", a.allowedMethods(path)); http.Error(w, ..., 405)
NotAllowed(i) ==
    /\ reqs[i].pc = "notallowed"
    /\ \E a \in allowedMethods(reqs[i].path) :
           reqs' = [reqs EXCEPT ![i] =
                       [@ EXCEPT !.pc = "done",
                                 !.w = http_Error([@ EXCEPT !.hasAllow = TRUE, !.allow = a],
                                                  "Method Not Allowed\n",
                                                  StatusMethodNotAllowed)]]
    /\ UNCHANGED <<mws, pathMethodHandlerMap, muxPatterns, registered, nreg, last>>

\* a map read that races with a write: the runtime may stop the process
\* ("fatal error: concurrent map read and map write")
RacedRead(i) ==
    /\ reqs[i].pc \in {"callback", "notallowed"}
    /\ Raced(i)
    /\ reqs' = [reqs EXCEPT ![i].pc = "crashed"]
    /\ UNCHANGED <<mws, pathMethodHandlerMap, muxPatterns, registered, nreg, last>>

ServePaths == {"/a"}
ServeHandlers == {"h1", NilHandler}
ServeMwLists == {<<>>, <<"A">>, <<"I">>}
ServeGlobalLists == {<<"G1">>}
ServeRequestMethods == {MethodGet, MethodPost}
ServeRequestPaths == {"/a", "/c"}

ServeGet == \E p \in ServePaths, h \in ServeHandlers, ms \in ServeMwLists :
                nreg < MaxConcRegs /\ Get(p, h, ms)
ServeGlobal == \E ms \in ServeGlobalLists :
                /\ Len(mws) + Len(ms) <= MaxGlobal
                /\ Range(mws) \cap Range(ms) = {}
                /\ WithGlobalMiddlewares(ms)
ServeArrive == \E i \in DOMAIN reqs, m \in ServeRequestMethods, p \in ServeRequestPaths :
                Arrive(i, m, p)
ServeLookup == \E i \in DOMAIN reqs : Lookup(i)
ServeRun == \E i \in DOMAIN reqs : Run(i)
ServeNotAllowed == \E i \in DOMAIN reqs : NotAllowed(i)
ServeRacedRead == \E i \in DOMAIN reqs : RacedRead(i)

ServeNext ==
    \/ ServeGet
    \/ ServeGlobal
    \/ ServeArrive
    \/ ServeLookup
    \/ ServeRun
    \/ ServeNotAllowed
    \/ ServeRacedRead

SpecServe == Init /\ [][ServeNext]_vars

(* ------------------------------------------------------------------ *)
(* Fault specification: requests served step by step on a router      *)
(* whose registrations may panic partway or store a nil handler       *)
(* ------------------------------------------------------------------ *)
FaultMwLists == {<<>>, <<NilMw>>}

\* a registration; with a nil middleware it panics in applyMiddleware and the
\* caller recovers
FaultGet == \E p \in ServePaths, h \in ServeHandlers, ms \in FaultMwLists :
                nreg < MaxConcRegs /\ Get(p, h, ms)

FaultNext ==
    \/ FaultGet
    \/ ServeGlobal
    \/ ServeArrive
    \/ ServeLookup
    \/ ServeRun
    \/ ServeNotAllowed
    \/ ServeRacedRead

SpecFault == Init /\ [][FaultNext]_vars

(* ------------------------------------------------------------------ *)
(* Vocabulary of the properties                                       *)
(* ------------------------------------------------------------------ *)
\* the latest operation was a request for a (path, method) a handle call stored
Served == /\ last.kind = "request"
          /\ <<last.path, last.method>> \in DOMAIN registered

\* the arguments that route was last registered with
Reg == registered[<<last.path, last.method>>]

\* the steps of a route in nesting order, outermost first
Nesting(r) == r.global \o r.mws \o <<r.handler>>

AllCallNext(ms) == \A i \in DOMAIN ms : ms[i] \in NextMws

\* position of the first step of a nesting that does not call next
FirstStop(full) == CHOOSE k \in DOMAIN full :
                       /\ full[k] \notin NextMws
                       /\ \A j \in 1..(k - 1) : full[j] \in NextMws

IsPrefix(s, t) == Len(s) <= Len(t) /\ \A i \in DOMAIN s : s[i] = t[i]

InRoute(x) == x \in RouteMws

C2_GlobalWrapsRoute ==
    Served =>
        /\ (AllCallNext(Reg.global) /\ AllCallNext(Reg.mws) /\ Reg.handler \in Handlers)
               => last.resp.called = Reg.global \o Reg.mws \o <<Reg.handler>>
        /\ \A i, j \in DOMAIN last.resp.called :
               (i < j /\ last.resp.called[j] \in GlobalMws)
                   => last.resp.called[i] \in GlobalMws

C2_Witness ==
    /\ Served
    /\ Reg.global = <<"G2", "G1">>
    /\ Reg.mws = <<"A", "B">>
    /\ last.resp.called = <<"G2", "G1", "A", "B", "h2">>

RegisteredFor(path) == {m \in Methods : <<path, m>> \in DOMAIN registered}

\* a header value read back: the fields between the ", " separators
RECURSIVE SplitAt(_, _)
SplitAt(s, field) ==
    IF s = <<>> THEN <<field>>
    ELSE IF Head(s) = Separator THEN <<field>> \o SplitAt(Tail(s), <<>>)
    ELSE SplitAt(Tail(s), Append(field, Head(s)))

ListedMethods(s) == IF s = <<>> THEN <<>> ELSE SplitAt(s, <<>>)

C4_MethodNotAllowedComplete ==
    (/\ last.kind = "request"
     /\ RegisteredFor(last.path) # {}
     /\ last.method \notin RegisteredFor(last.path))
        => LET listed == ListedMethods(last.resp.allow)
           IN  /\ last.resp.status = StatusMethodNotAllowed
               /\ last.resp.hasAllow
               /\ \A i \in DOMAIN listed : Len(listed[i]) = 1
               /\ {listed[i][1] : i \in DOMAIN listed} = RegisteredFor(last.path)
               /\ Len(listed) = Cardinality(RegisteredFor(last.path))

C4_Witness ==
    /\ last.kind = "request"
    /\ last.resp.status = StatusMethodNotAllowed
    /\ last.resp.allow = <<MethodPost, Separator, MethodGet>>
    /\ registered[<<last.path, MethodGet>>].times = 2

\* the call log a route produces: its nesting up to the first step that stops
ExpectedCalls(r) ==
    LET full == Nesting(r)
        k == FirstStop(full)
    IN  IF full[k] = NilHandler THEN SubSeq(full, 1, k - 1) ELSE SubSeq(full, 1, k)

(* ------------------------------------------------------------------ *)
(* C5: with two distinct methods m1, m2 registered on a path, in       *)
(* either order, a request with m1 runs the chain composed for m1 and  *)
(* no step that belongs only to the chain composed for m2.             *)
(* ------------------------------------------------------------------ *)
OtherMethods == RegisteredFor(last.path) \ {last.method}

C5_MethodIsolation ==
    (Served /\ OtherMethods # {})
        => /\ last.resp.called = ExpectedCalls(Reg)
           /\ \A m2 \in OtherMethods :
                  LET other == registered[<<last.path, m2>>]
                  IN  \A x \in Range(Nesting(other)) \ Range(Nesting(Reg)) :
                          x \notin Range(last.resp.called)
           /\ Reg.handler \in Range(last.resp.called) => last.resp.body = Reg.handler

C5_Witness ==
    /\ Served
    /\ last.method = MethodPost
    /\ MethodGet \in OtherMethods
    /\ registered[<<last.path, MethodGet>>].handler = "h1"
    /\ registered[<<last.path, MethodGet>>].mws = <<"A">>
    /\ last.resp.called = <<"B", "h2">>

(* ------------------------------------------------------------------ *)
(* C6: registering (p, m) a second time raises no error and leaves the *)
(* set of methods of p as it was; every request to (p, m) afterwards   *)
(* runs the chain of the later registration only.                      *)
(* ------------------------------------------------------------------ *)
C6_LaterRequests ==
    (Served /\ Reg.times >= 2)
        => /\ last.resp.called = ExpectedCalls(Reg)
           /\ Reg.handler \in Range(last.resp.called) => last.resp.body = Reg.handler

C6_Overwriting ==
    \A m \in Methods :
        (/\ <<ChainPath, m>> \in DOMAIN registered
         /\ nreg' = nreg + 1
         /\ last'.path = ChainPath
         /\ last'.method = m)
            => /\ ~last'.fault
               /\ registered'[<<ChainPath, m>>].times = registered[<<ChainPath, m>>].times + 1
               /\ DOMAIN pathMethodHandlerMap'[ChainPath] = DOMAIN pathMethodHandlerMap[ChainPath]

\* C6: both parts, the requests after an overwrite and the overwriting step
C6_OverwriteLastWins == []C6_LaterRequests /\ [][C6_Overwriting]_vars

C6_Witness ==
    /\ Served
    /\ Reg.times = 2
    /\ Reg.handler = "h2"
    /\ Reg.mws = <<"B">>
    /\ last.resp.called = <<"B", "h2">>
    /\ last.resp.body = "h2"

(* ------------------------------------------------------------------ *)
(* C7: when the middleware at position k of a chain (global, then      *)
(* route, then handler) does not call next, the steps up to and        *)
(* including k run, nothing nested inside it runs, and the response is *)
(* what those steps wrote: the 401 of the interrupting middleware.     *)
(* ------------------------------------------------------------------ *)
Interrupted(r) == \E k \in DOMAIN Nesting(r) : Nesting(r)[k] \in InterruptMws

C7_ShortCircuit ==
    (Served /\ Interrupted(Reg))
        => LET k == FirstStop(Nesting(Reg))
           IN  /\ last.resp.called = SubSeq(Nesting(Reg), 1, k)
               /\ \A j \in (k + 1)..Len(Nesting(Reg)) :
                      Nesting(Reg)[j] \notin Range(last.resp.called)
               /\ last.resp.status = StatusUnauthorized
               /\ last.resp.body = ""
               /\ ~last.resp.hasAllow
               /\ ~last.resp.fault

C7_Witness ==
    /\ Served
    /\ Reg.global = <<"G1">>
    /\ Reg.mws = <<"I", "A">>
    /\ last.resp.called = <<"G1", "I">>
    /\ last.resp.status = StatusUnauthorized

(* ------------------------------------------------------------------ *)
(* C8: WithGlobalMiddlewares called after (p, m) was registered leaves *)
(* every stored chain as it was; requests to (p, m) made afterwards    *)
(* run the chain composed at registration and none of the middleware   *)
(* added since.                                                       *)
(* ------------------------------------------------------------------ *)
AddedSince(r) == {mws[i] : i \in (Len(r.global) + 1)..Len(mws)}

C8_RequestsAfterGlobal ==
    (Served /\ Len(mws) > Len(Reg.global))
        => /\ last.resp.called = ExpectedCalls(Reg)
           /\ \A g \in AddedSince(Reg) : g \notin Range(last.resp.called)

C8_GlobalStep ==
    (mws' # mws) => /\ pathMethodHandlerMap' = pathMethodHandlerMap
                    /\ muxPatterns' = muxPatterns

\* C8: both parts, the requests after the call and the call itself
C8_GlobalNotRetroactive == []C8_RequestsAfterGlobal /\ [][C8_GlobalStep]_vars

C8_Witness ==
    /\ Served
    /\ Reg.global = <<"G1">>
    /\ mws = <<"G1", "G2">>
    /\ Reg.mws = <<"A">>
    /\ last.resp.called = <<"G1", "A", "h1">>

(* ------------------------------------------------------------------ *)
(* C9: with no write to router state since they arrived, requests      *)
(* served concurrently each end with exactly the response the chain of *)
(* their own (path, method) produces, whatever the other requests do,  *)
(* and none is stopped or left without a next step by router state.    *)
(* ------------------------------------------------------------------ *)
Ended(i) == reqs[i].pc \in {"done", "panicked", "crashed"}

Running(i) == reqs[i].pc \in {"callback", "run", "notallowed"}

C9_ConcurrentDispatch ==
    \A i \in DOMAIN reqs :
        /\ (Ended(i) /\ ~Raced(i))
               => /\ reqs[i].pc # "crashed"
                  /\ reqs[i].w \in ServeHTTP(reqs[i].method, reqs[i].path)
                  /\ (reqs[i].pc = "panicked") = reqs[i].w.fault
        /\ (Running(i) /\ ~Raced(i))
               => ENABLED (Lookup(i) \/ Run(i) \/ NotAllowed(i))

C9_Witness ==
    /\ reqs[1].pc = "done"
    /\ reqs[2].pc = "run"
    /\ ~Raced(1)
    /\ ~Raced(2)
    /\ reqs[1].method = MethodGet
    /\ reqs[2].method = MethodGet
    /\ reqs[1].w.called = <<"G1", "A", "h1">>
    /\ reqs[1].w.body = "h1"
    /\ reqs[1].w.status = StatusOK
    /\ reqs[2].w.called = <<"G1">>

(* ------------------------------------------------------------------ *)
(* C10: registering a nil handler completes without fault and records  *)
(* the method for the path; a later request to it, when no middleware  *)
(* of the chain short-circuits, ends in a fault the router does not    *)
(* catch and has no response: no 405, no empty success.                *)
(* ------------------------------------------------------------------ *)
C10_RequestFaults ==
    \A i \in DOMAIN reqs :
        (/\ Ended(i)
         /\ ~Raced(i)
         /\ <<reqs[i].path, reqs[i].method>> \in DOMAIN registered
         /\ registered[<<reqs[i].path, reqs[i].method>>].handler = NilHandler
         /\ ~Interrupted(registered[<<reqs[i].path, reqs[i].method>>]))
            => /\ reqs[i].pc = "panicked"
               /\ reqs[i].w.fault
               /\ reqs[i].w.status = 0
               /\ reqs[i].w.body = ""
               /\ ~reqs[i].w.hasAllow
               /\ reqs[i].w.called =
                      ExpectedCalls(registered[<<reqs[i].path, reqs[i].method>>])

C10_Registering ==
    (nreg' = nreg + 1 /\ last'.handler = NilHandler)
        => /\ ~last'.fault
           /\ last'.path \in DOMAIN pathMethodHandlerMap'
           /\ last'.method \in DOMAIN pathMethodHandlerMap'[last'.path]
           /\ pathMethodHandlerMap'[last'.path][last'.method][
                  Len(pathMethodHandlerMap'[last'.path][last'.method])] = NilHandler

\* C10: both parts, the registration of a nil handler and the requests to it
C10_NilHandlerFatalAtDispatch == []C10_RequestFaults /\ [][C10_Registering]_vars

C10_Witness ==
    /\ reqs[1].pc = "panicked"
    /\ ~Raced(1)
    /\ registered[<<reqs[1].path, reqs[1].method>>].handler = NilHandler
    /\ reqs[1].w.called = <<"G1", "A">>
    /\ reqs[1].w.fault

(* ------------------------------------------------------------------ *)
(* C11: a request to a path no handle call ever named gets the        *)
(* multiplexer's 404 and runs no callback, handler or middleware; a   *)
(* request to a path with a callback is answered from that path's own *)
(* method table, and a handle call for another path leaves the method *)
(* table and the callback of this path as they were.                  *)
(* ------------------------------------------------------------------ *)
C11_UnknownPath ==
    (last.kind = "request" /\ last.path \notin DOMAIN pathMethodHandlerMap)
        => /\ last.resp = NotFound
           /\ last.resp.called = <<>>
           /\ ~last.resp.hasAllow

C11_OwnTable ==
    (last.kind = "request" /\ last.path \in muxPatterns)
        => IF last.method \in RegisteredFor(last.path)
           THEN last.resp.called = ExpectedCalls(Reg)
           ELSE /\ last.resp.status = StatusMethodNotAllowed
                /\ last.resp.called = <<>>
                /\ LET listed == ListedMethods(last.resp.allow)
                   IN  {listed[i][1] : i \in DOMAIN listed} = RegisteredFor(last.path)

C11_OtherPathStep ==
    \A p \in RequestPaths \cup {BadPath} :
        (nreg' = nreg + 1 /\ last'.path # p)
            => /\ Table(p)' = Table(p)
               /\ (p \in muxPatterns') = (p \in muxPatterns)

Refused ==
    /\ last.kind = "request"
    /\ RegisteredFor(last.path) # {}
    /\ last.method \notin RegisteredFor(last.path)

\* the methods an Allow value lists
AllowSet(s) == {ListedMethods(s)[i] : i \in DOMAIN ListedMethods(s)}

\* as claimed: a second dispatch on the same table gives the identical response
C12_SameAllowValue ==
    Refused => \A r \in ServeHTTP(last.method, last.path) : r = last.resp

\* a second dispatch on the same table agrees up to the order of the methods
C12_SameAllowSet ==
    Refused => \A r \in ServeHTTP(last.method, last.path) :
                  /\ r.status = last.resp.status
                  /\ r.body = last.resp.body
                  /\ r.hasAllow = last.resp.hasAllow
                  /\ r.called = last.resp.called
                  /\ r.fault = last.resp.fault
                  /\ Len(r.allow) = Len(last.resp.allow)
                  /\ AllowSet(r.allow) = AllowSet(last.resp.allow)

C12_Witness ==
    /\ Refused
    /\ last.resp.status = StatusMethodNotAllowed
    /\ last.resp.allow = <<MethodGet, Separator, MethodPut>>
    /\ \E r \in ServeHTTP(last.method, last.path) :
           r.allow = <<MethodPut, Separator, MethodGet>>

(* ------------------------------------------------------------------ *)
(* C13: in every state reached through Get, Post, Put, Patch, Delete  *)
(* and WithGlobalMiddlewares, calls that panic partway included, a    *)
(* path has an entry in the route table if and only if at least one   *)
(* (method, handler) pair is stored for it, and if and only if a      *)
(* dispatch callback for it is installed on the multiplexer.          *)
(* ------------------------------------------------------------------ *)
C13_RoutesInvariant ==
    \A p \in RoutePaths :
        /\ (p \in DOMAIN pathMethodHandlerMap) <=> (DOMAIN Table(p) # {})
        /\ (p \in DOMAIN pathMethodHandlerMap) <=> (p \in muxPatterns)

(* ------------------------------------------------------------------ *)
(* C14: over any sequence of registrations the router registers a     *)
(* pattern with the multiplexer once per path, on the first           *)
(* registration for the path and never again; so the callbacks        *)
(* installed are those of the distinct paths registered, one each,    *)
(* and their number equals the number of those paths.                 *)
(* ------------------------------------------------------------------ *)
\* the paths a completed handle call stored a handler for
RegisteredPaths == {p \in RoutePaths : RegisteredFor(p) # {}}

C14_SingleCallbackPerPath ==
    /\ \A p \in RegisteredPaths : p \in muxPatterns
    /\ Cardinality(muxPatterns) = Cardinality(RegisteredPaths)

(* ------------------------------------------------------------------ *)
(* C15: in every route-table state the public API can reach, and for  *)
(* every request method, the callback's own steps (the method-table   *)
(* lookup, building the Allow value, writing the 405) end without a   *)
(* runtime fault, also for a path whose method table is empty; a      *)
(* fault during dispatch arises only in running what the user         *)
(* registered.                                                        *)
(* ------------------------------------------------------------------ *)
\* request i found no handler for its method in the table of its path
Unmatched(i) ==
    /\ reqs[i].path \in muxPatterns
    /\ reqs[i].method \notin DOMAIN Table(reqs[i].path)

C15_RefusalCompletes ==
    \A i \in DOMAIN reqs :
        (Ended(i) /\ ~Raced(i) /\ Unmatched(i))
            => /\ reqs[i].pc = "done"
               /\ ~reqs[i].w.fault
               /\ reqs[i].w.status = StatusMethodNotAllowed
               /\ reqs[i].w.hasAllow
               /\ reqs[i].w.body = "Method Not Allowed\n"
               /\ reqs[i].w.called = <<>>

\* a request that was not raced stops with a fault only in a step of its chain,
\* and there only at the call of a nil func the user registered
C15_FaultStep ==
    \A i \in DOMAIN reqs :
        (/\ Running(i)
         /\ ~Raced(i)
         /\ reqs'[i].pc \in {"panicked", "crashed"})
            => /\ reqs[i].pc = "run"
               /\ Head(reqs[i].h) = NilHandler

C15_OwnLogicNeverFaults == []C15_RefusalCompletes /\ [][C15_FaultStep]_vars

C15_Witness ==
    /\ reqs[1].pc = "done"
    /\ ~Raced(1)
    /\ Unmatched(1)
    /\ DOMAIN Table(reqs[1].path) = {}
    /\ reqs[1].w.status = StatusMethodNotAllowed
    /\ reqs[1].w.allow = <<>>
    /\ reqs[2].pc = "done"
    /\ reqs[2].method # reqs[1].method
    /\ Unmatched(2)

(* ------------------------------------------------------------------ *)
(* C16: across every step the set of registered paths and each path's *)
(* set of registered methods never lose an element, and the global    *)
(* middleware list changes only by WithGlobalMiddlewares(x1..xn),     *)
(* after which it is the old list followed by x1..xn in that order.   *)
(* ------------------------------------------------------------------ *)
C16_GrowthStep ==
    /\ DOMAIN pathMethodHandlerMap \subseteq DOMAIN pathMethodHandlerMap'
    /\ \A p \in DOMAIN pathMethodHandlerMap :
           DOMAIN pathMethodHandlerMap[p] \subseteq DOMAIN pathMethodHandlerMap'[p]
    /\ DOMAIN registered \subseteq DOMAIN registered'
    /\ muxPatterns \subseteq muxPatterns'
    /\ IsPrefix(mws, mws')
    /\ IF last'.kind = "global"
       THEN mws' = mws \o last'.added
       ELSE mws' = mws

C16_MonotonicGrowth == [][C16_GrowthStep]_vars

C16_Witness ==
    /\ last.kind = "global"
    /\ last.added = <<"G2">>
    /\ mws = <<"G1", "G2">>
    /\ DOMAIN Table("/a") = {MethodGet}
    /\ DOMAIN Table("/b") = {MethodDelete}

(* ------------------------------------------------------------------ *)
(* C17: for every path, allowedMethods(path) returns the empty string *)
(* when no method is registered for the path (a path never registered *)
(* included), and otherwise each registered method name exactly once, *)
(* consecutive names separated by exactly ", ", with no leading and   *)
(* no trailing separator; the call does not modify the route table.   *)
(* ------------------------------------------------------------------ *)
\* the string s is the names of the set `methods`, each once, ", " between them
JoinedOnce(s, methods) ==
    IF methods = {} THEN s = <<>>
    ELSE /\ Len(s) = 2 * Cardinality(methods) - 1
         /\ \A i \in DOMAIN s : (i % 2 = 0) <=> (s[i] = Separator)
         /\ {s[i] : i \in {j \in DOMAIN s : j % 2 = 1}} = methods

C17_Returned ==
    last.kind = "allowedMethods" => JoinedOnce(last.result, RegisteredFor(last.path))

C17_CallStep ==
    (last'.kind = "allowedMethods")
        => UNCHANGED <<pathMethodHandlerMap, muxPatterns, mws>>

C17_AllowedMethodsFormat == []C17_Returned /\ [][C17_CallStep]_vars

C17_Witness ==
    /\ last.kind = "allowedMethods"
    /\ last.path = "/a"
    /\ last.result = <<MethodPost, Separator, MethodGet>>
    /\ registered[<<"/a", MethodGet>>].times = 1

(* ------------------------------------------------------------------ *)
(* C18: a request for a registered path with a method not registered  *)
(* for it runs no terminal handler, no route middleware and no global *)
(* middleware, also when the router has global middleware that wraps  *)
(* every registered handler; the dispatch callback alone writes the   *)
(* 405 response.                                                      *)
(* ------------------------------------------------------------------ *)
C18_RefusalBypassesMiddleware ==
    Refused => /\ last.resp.called = <<>>
               /\ last.resp.status = StatusMethodNotAllowed
               /\ last.resp.body = "Method Not Allowed\n"
               /\ last.resp.hasAllow
               /\ ~last.resp.fault

C18_Witness ==
    /\ Refused
    /\ mws = <<"G1">>
    /\ last.resp.called = <<>>
    /\ last.resp.status = StatusMethodNotAllowed
    /\ \E m \in RegisteredFor(last.path) :
           registered[<<last.path, m>>].global = <<"G1">>

(* ------------------------------------------------------------------ *)
(* C19: dispatching a request, for a registered method, for a method  *)
(* not registered on the path or for a path with no callback, with    *)
(* handlers that do not call the router themselves, leaves the route  *)
(* table, every method table and the global middleware list as they   *)
(* were.                                                              *)
(* ------------------------------------------------------------------ *)
\* a step of some request: the mux match, the lookup, a closure of the chain,
\* or the 405 answer
DispatchStep == reqs' # reqs

C19_DispatchStepReadOnly ==
    DispatchStep
        => /\ pathMethodHandlerMap' = pathMethodHandlerMap
           /\ \A p \in DOMAIN pathMethodHandlerMap : Table(p)' = Table(p)
           /\ mws' = mws
           /\ muxPatterns' = muxPatterns

C19_DispatchReadOnly == [][C19_DispatchStepReadOnly]_vars

C19_Witness ==
    /\ reqs[1].pc = "done"
    /\ reqs[1].w.status = StatusMethodNotAllowed
    /\ reqs[2].pc = "done"
    /\ reqs[2].w.called = <<"G1", "h1">>
    /\ ~Raced(1)
    /\ ~Raced(2)
    /\ DOMAIN Table("/a") = {MethodGet}
    /\ mws = <<"G1">>

(* ------------------------------------------------------------------ *)
(* C20: a handle call composes with the global list as it is at that  *)
(* call: a route registered, or registered again, after               *)
(* WithGlobalMiddlewares(g) runs g on its requests, around its route  *)
(* middleware, and a route registered before that call and not since  *)
(* does not; two routes of one router can so run different global     *)
(* middleware, by the order of the calls alone.                       *)
(* ------------------------------------------------------------------ *)
IsGlobalMw(x) == x \in GlobalMws

C20_GlobalAtRegistration ==
    Served => /\ SelectSeq(last.resp.called, IsGlobalMw) = Reg.global
              /\ IsPrefix(Reg.global, last.resp.called)

C20_Witness ==
    /\ Served
    /\ last.method = MethodPost
    /\ Reg.global = <<"G1">>
    /\ Reg.mws = <<"A">>
    /\ last.resp.called = <<"G1", "A", "h1">>
    /\ <<last.path, MethodGet>> \in DOMAIN registered
    /\ registered[<<last.path, MethodGet>>].global = <<>>
    /\ mws = <<"G1">>

====
